---- MODULE Spec2Model ----
(***************************************************************************)
(* Model of the passenger dashboard (src/app.py): one analysis session.    *)
(* A CSV is uploaded, DataLoader.load_data parses it, FilterUI narrows it, *)
(* and the analysis classes are called on the filtered table.              *)
(*                                                                         *)
(* Encoding.  A CSV is [cols, rows]; a row is a record with one field per  *)
(* column (a field of a column that is not in cols is never read).         *)
(* A raw date-time cell is the sequence of the numbers of its text:        *)
(* <<y, m, d, h>> for "y-m-d h:00", <<>> for an empty cell, anything else  *)
(* for text that is no date-time.  A parsed date-time is a record          *)
(* [year, month, day, hour]; NaT is the missing date-time.  Identifiers    *)
(* (routes, stations, regions) are positive integers; NaN is the missing   *)
(* value pandas puts in an empty cell.  passenger_count and Total_Fees are *)
(* natural numbers, so sums, means and variances are exact rationals.      *)
(* A Series (the result of an aggregation) is a sequence of <<key, value>> *)
(* pairs.                                                                  *)
(***************************************************************************)
EXTENDS Integers, Sequences, FiniteSets, TLC

VARIABLES csv, pc, loader_df, df, regions, routes, op, arg, result, anomalies, error

vars == <<csv, pc, loader_df, df, regions, routes, op, arg, result, anomalies, error>>

----------------------------------------------------------------------------
(* Values *)

NaN == -1

NaT == [year |-> 0, month |-> 0, day |-> 0, hour |-> 0]

None == [cols |-> {}, rows |-> <<>>]

Columns ==
  {"Timestamp", "Departure_Time", "Arrival_Time", "passenger_count", "Route_ID",
   "Entry_Station_ID", "Exit_Station_ID", "Region", "Total_Fees"}

Range(s) == {s[i] : i \in 1..Len(s)}

RECURSIVE SumSeq(_)
SumSeq(s) == IF s = <<>> THEN 0 ELSE s[1] + SumSeq(Tail(s))

Abs(x) == IF x < 0 THEN -x ELSE x

Column(t, c) == [i \in 1..Len(t.rows) |-> t.rows[i][c]]

----------------------------------------------------------------------------
(* pd.to_datetime *)

IsLeap(y) == (y % 4 = 0 /\ y % 100 # 0) \/ y % 400 = 0

DaysInMonth(y, m) ==
  IF m = 2 THEN (IF IsLeap(y) THEN 29 ELSE 28)
  ELSE IF m \in {4, 6, 9, 11} THEN 30 ELSE 31

\* the text of the cell is a date-time
Parseable(cell) ==
  /\ Len(cell) = 4
  /\ cell[1] >= 1
  /\ cell[2] \in 1..12
  /\ cell[3] >= 1 /\ cell[3] <= DaysInMonth(cell[1], cell[2])
  /\ cell[4] \in 0..23

\* an empty cell is read by read_csv as NaN, which to_datetime turns into NaT
\* without raising, whatever the errors= argument
ParseCell(cell) ==
  IF cell = <<>> THEN NaT
  ELSE [year |-> cell[1], month |-> cell[2], day |-> cell[3], hour |-> cell[4]]

\* to_datetime(column), errors='raise': raises when a non-empty cell is no date-time
Raises(t, c) == \E i \in 1..Len(t.rows) : t.rows[i][c] # <<>> /\ ~Parseable(t.rows[i][c])

to_datetime(t, c) ==
  [t EXCEPT !.rows = [i \in 1..Len(t.rows) |->
      [t.rows[i] EXCEPT ![c] = ParseCell(t.rows[i][c])]]]

\* to_datetime(column, errors='coerce'): a cell that is no date-time becomes NaT
to_datetime_coerce(t, c) ==
  [t EXCEPT !.rows = [i \in 1..Len(t.rows) |->
      [t.rows[i] EXCEPT ![c] =
          IF t.rows[i][c] # <<>> /\ ~Parseable(t.rows[i][c]) THEN NaT
          ELSE ParseCell(t.rows[i][c])]]]

----------------------------------------------------------------------------
(* DataLoader.load_data *)

\* pd.read_csv: the columns and rows of the file, the cells still raw
read_csv(file) == [cols |-> file.cols, rows |-> file.rows]

\* The statements of load_data in order; the first one that raises ends the
\* call.  self_df is DataLoader.df when the call ends, returned is the table
\* handed to the caller (None when the call raised).
load_data(file) ==
  LET d0 == read_csv(file)
      d1 == to_datetime(d0, "Timestamp")
      d2 == to_datetime_coerce(d1, "Departure_Time")
      d3 == to_datetime_coerce(d2, "Arrival_Time")
  IN  IF "Timestamp" \notin d0.cols
        THEN [self_df |-> d0, returned |-> None, error |-> "KeyError"]
      ELSE IF Raises(d0, "Timestamp")
        THEN [self_df |-> d0, returned |-> None, error |-> "ValueError"]
      ELSE IF "Departure_Time" \notin d0.cols
        THEN [self_df |-> d1, returned |-> None, error |-> "KeyError"]
      ELSE IF "Arrival_Time" \notin d0.cols
        THEN [self_df |-> d2, returned |-> None, error |-> "KeyError"]
      ELSE [self_df |-> d3, returned |-> d3, error |-> "none"]

----------------------------------------------------------------------------
(* Series helpers: groupby(...).sum(), sort_values, head, value_counts *)

Min(S) == CHOOSE x \in S : \A y \in S : x <= y

RECURSIVE Ascending(_)
Ascending(S) == IF S = {} THEN <<>> ELSE <<Min(S)>> \o Ascending(S \ {Min(S)})

RECURSIVE SumWhere(_, _, _)
SumWhere(keys, vals, k) ==
  IF keys = <<>> THEN 0
  ELSE (IF keys[1] = k THEN vals[1] ELSE 0) + SumWhere(Tail(keys), Tail(vals), k)

\* groupby(keys)[col].sum(): one group per key present, a missing key (NaN, NaT)
\* forms no group (dropna=True); the groups come in ascending key order
GroupBySum(keys, vals) ==
  LET ks == Ascending(Range(keys) \ {NaN})
  IN  [i \in 1..Len(ks) |-> <<ks[i], SumWhere(keys, vals, ks[i])>>]

Values(series) == [i \in 1..Len(series) |-> series[i][2]]

Keys(series) == [i \in 1..Len(series) |-> series[i][1]]

IsDescending(series) ==
  \A i \in 1..Len(series) : \A j \in 1..Len(series) : i < j => series[i][2] >= series[j][2]

\* sort_values(ascending=False): the outcomes of the sort; the order of equal
\* values is left to the sort algorithm
sort_values_desc(series) ==
  {t \in {[i \in 1..Len(series) |-> series[f[i]]] : f \in Permutations(1..Len(series))} :
      IsDescending(t)}

\* head(n): the first n entries, all but the last -n when n is negative
head(series, n) ==
  LET k == IF n >= 0 THEN (IF n < Len(series) THEN n ELSE Len(series))
           ELSE (IF Len(series) + n > 0 THEN Len(series) + n ELSE 0)
  IN  SubSeq(series, 1, k)

Ones(s) == [i \in 1..Len(s) |-> 1]

\* value_counts(): occurrences of each value, missing values not counted,
\* largest count first
value_counts(s) == sort_values_desc(GroupBySum(s, Ones(s)))

----------------------------------------------------------------------------
(* Timestamp accessors (.dt) : a missing Timestamp gives a missing key *)

dt_hour(ts) == IF ts = NaT THEN NaN ELSE ts.hour

dt_day(ts) == IF ts = NaT THEN NaN ELSE ts.day

dt_month(ts) == IF ts = NaT THEN NaN ELSE ts.month

dt_year(ts) == IF ts = NaT THEN NaN ELSE ts.year

\* the calendar date, as the number yyyymmdd (ordered as the dates are)
dt_date(ts) == IF ts = NaT THEN NaN ELSE ts.year * 10000 + ts.month * 100 + ts.day

----------------------------------------------------------------------------
(* PeakCongestionAnalysis *)

hourly_analysis(t) ==
  GroupBySum([i \in 1..Len(t.rows) |-> dt_hour(t.rows[i].Timestamp)], Column(t, "passenger_count"))

daily_analysis(t) ==
  GroupBySum([i \in 1..Len(t.rows) |-> dt_day(t.rows[i].Timestamp)], Column(t, "passenger_count"))

monthly_analysis(t) ==
  GroupBySum([i \in 1..Len(t.rows) |-> dt_month(t.rows[i].Timestamp)], Column(t, "passenger_count"))

yearly_analysis(t) ==
  GroupBySum([i \in 1..Len(t.rows) |-> dt_year(t.rows[i].Timestamp)], Column(t, "passenger_count"))

(* PopularRouteAnalysis *)

\* top_routes without its sort_values: the groups stay in route order
top_routes_unsorted(t, n) ==
  {head(GroupBySum(Column(t, "Route_ID"), Column(t, "passenger_count")), n)}

top_routes(t, n) ==
  {head(s, n) : s \in sort_values_desc(GroupBySum(Column(t, "Route_ID"), Column(t, "passenger_count")))}

\* top_transfer_points over the entry stations alone
top_transfer_points_entry_only(t, n) ==
  {head(s, n) : s \in value_counts(Column(t, "Entry_Station_ID"))}

top_transfer_points(t, n) ==
  LET transfers == Column(t, "Entry_Station_ID") \o Column(t, "Exit_Station_ID")
  IN  {head(s, n) : s \in value_counts(transfers)}

(* RegionalPerformanceAnalysis *)

region_passenger_trends(t) ==
  sort_values_desc(GroupBySum(Column(t, "Region"), Column(t, "passenger_count")))

region_revenue_trends(t) ==
  sort_values_desc(GroupBySum(Column(t, "Region"), Column(t, "Total_Fees")))

----------------------------------------------------------------------------
(* ServiceDisruptionDetection.  Rationals are [num, den]; den = 0 is NaN. *)

\* Series.mean(): NaN for an empty series
mean(vals) == [num |-> SumSeq(vals), den |-> Len(vals)]

\* x - mean, as a rational
minus_mean(x, m) == [num |-> x * m.den - m.num, den |-> m.den]

\* Series.std() squared: sum((x - mean)^2) / (N - 1), NaN for fewer than 2 values
std_squared(vals) ==
  LET N == Len(vals)
      S == SumSeq(vals)
      sq == [i \in 1..N |-> (N * vals[i] - S) * (N * vals[i] - S)]
  IN  IF N < 2 THEN [num |-> 0, den |-> 0]
      ELSE [num |-> SumSeq(sq), den |-> N * N * (N - 1)]

\* the comparison with >= in place of >
abs_ge_z_std(dev, z, var) ==
  IF dev.den = 0 \/ var.den = 0 THEN FALSE
  ELSE IF z[1] < 0 THEN TRUE
  ELSE dev.num * dev.num * z[2] * z[2] * var.den >= z[1] * z[1] * var.num * dev.den * dev.den

\* the comparison with abs(z) in place of z
abs_gt_abs_z_std(dev, z, var) ==
  IF dev.den = 0 \/ var.den = 0 THEN FALSE
  ELSE dev.num * dev.num * z[2] * z[2] * var.den > z[1] * z[1] * var.num * dev.den * dev.den

\* abs(dev) > z * std, z = z[1] / z[2] with z[2] > 0; a comparison with NaN is False
abs_gt_z_std(dev, z, var) ==
  IF dev.den = 0 \/ var.den = 0 THEN FALSE
  ELSE IF z[1] < 0 THEN Abs(dev.num) > 0 \/ var.num > 0
  ELSE dev.num * dev.num * z[2] * z[2] * var.den > z[1] * z[1] * var.num * dev.den * dev.den

\* the daily totals grouped by day of the month, as daily_analysis groups
daily_counts_by_day_of_month(t) ==
  GroupBySum([i \in 1..Len(t.rows) |-> dt_day(t.rows[i].Timestamp)], Column(t, "passenger_count"))

daily_counts(t) ==
  GroupBySum([i \in 1..Len(t.rows) |-> dt_date(t.rows[i].Timestamp)], Column(t, "passenger_count"))

detect_anomalies(t, z_thresh) ==
  LET dc == daily_counts(t)
      m == mean(Values(dc))
      v == std_squared(Values(dc))
      flagged(e) == abs_gt_z_std(minus_mean(e[2], m), z_thresh, v)
  IN  <<SelectSeq(dc, flagged), dc>>

----------------------------------------------------------------------------
(* FilterUI.apply_filters *)

unique(t, c) == Range(Column(t, c))

\* df[df[c].isin(selection)]; isin matches a missing value against a selected one
isin_rows(t, c, selection) ==
  LET keep(r) == r[c] \in selection
  IN  [t EXCEPT !.rows = SelectSeq(t.rows, keep)]

filter_regions(t, sel) == IF sel # {} THEN isin_rows(t, "Region", sel) ELSE t

\* the route selection applied to the Region column
filter_routes_on_region(t, sel) == IF sel # {} THEN isin_rows(t, "Region", sel) ELSE t

filter_routes(t, sel) == IF sel # {} THEN isin_rows(t, "Route_ID", sel) ELSE t

----------------------------------------------------------------------------
(* The uploaded files *)

MaxRows == 2

MaxDayRows == 3

SeqsUpTo(S, n) == UNION {[1..k -> S] : k \in 0..n}

T1 == <<2024, 1, 1, 8>>

BaseRow ==
  [Timestamp |-> T1, Departure_Time |-> T1, Arrival_Time |-> <<2024, 1, 1, 9>>,
   passenger_count |-> 1, Route_ID |-> 1, Entry_Station_ID |-> 1, Exit_Station_ID |-> 2,
   Region |-> 1, Total_Fees |-> 2]

\* rows that differ in their date-time cells: valid, empty, no date-time
TimeCellRows ==
  {[BaseRow EXCEPT !.Timestamp = ts, !.Departure_Time = da[1], !.Arrival_Time = da[2]] :
      ts \in {T1, <<>>, <<2024, 13, 1, 8>>},
      da \in {<<T1, <<2024, 1, 1, 9>>>>, <<<<99>>, <<>>>>, <<<<>>, <<2024, 2, 30, 8>>>>}}

\* rows that differ in region and route; the fee depends on the route
RegionRouteRows ==
  {[BaseRow EXCEPT !.Region = rg, !.Route_ID = ro, !.Total_Fees = IF ro = 1 THEN 2 ELSE 5] :
      rg \in {1, 2, NaN}, ro \in {1, 2}}

\* rows that differ in date, hour and passenger count: two hours of one day,
\* the next day, and the same day of another month and year
DayRows ==
  {[BaseRow EXCEPT !.Timestamp = e[1], !.passenger_count = e[2]] :
      e \in {<<T1, 1>>, <<<<2024, 1, 1, 17>>, 3>>, <<<<2024, 1, 2, 8>>, 1>>,
             <<<<2024, 1, 2, 8>>, 3>>, <<<<2025, 2, 1, 8>>, 1>>, <<<<2025, 2, 1, 8>>, 3>>}}

\* rows that differ in route and passenger count
RouteRows ==
  {[BaseRow EXCEPT !.Route_ID = ro, !.passenger_count = pc0] :
      ro \in {1, 2, NaN}, pc0 \in {1, 2}}

\* rows that differ in entry and exit station
StationRows ==
  {[BaseRow EXCEPT !.Entry_Station_ID = en, !.Exit_Station_ID = ex] :
      en \in {1, 2, NaN}, ex \in {1, 2, NaN}}

\* the tables of the worked examples: routes [(R1,10),(R2,50),(R1,5)], one
\* record with entry = exit, daily totals 100 / 105 / 500 scaled by 1/5
ExampleTables ==
  {<<[BaseRow EXCEPT !.Route_ID = 1, !.passenger_count = 10],
     [BaseRow EXCEPT !.Route_ID = 2, !.passenger_count = 50],
     [BaseRow EXCEPT !.Route_ID = 1, !.passenger_count = 5]>>,
   <<[BaseRow EXCEPT !.Entry_Station_ID = 1, !.Exit_Station_ID = 1]>>,
   <<[BaseRow EXCEPT !.Timestamp = <<2024, 1, 1, 8>>, !.passenger_count = 20],
     [BaseRow EXCEPT !.Timestamp = <<2024, 1, 2, 8>>, !.passenger_count = 21],
     [BaseRow EXCEPT !.Timestamp = <<2024, 1, 3, 8>>, !.passenger_count = 100]>>}

Uploads ==
  {[cols |-> Columns, rows |-> rs] :
      rs \in SeqsUpTo(TimeCellRows, MaxRows) \cup SeqsUpTo(RegionRouteRows, MaxRows)
             \cup SeqsUpTo(DayRows, MaxDayRows) \cup SeqsUpTo(RouteRows, MaxRows)
             \cup SeqsUpTo(StationRows, MaxRows) \cup ExampleTables}
  \cup {[cols |-> Columns \ {c}, rows |-> rs] : c \in Columns, rs \in {<<>>, <<BaseRow>>}}

----------------------------------------------------------------------------
(* The session: PassengerDashboardApp.run and the calls it makes *)

NValues == {-1, 0, 1, 2, 5}

ZValues == {<<-1, 1>>, <<0, 1>>, <<1, 2>>, <<1, 1>>, <<5, 2>>}

Init ==
  /\ csv \in Uploads
  /\ pc = "start"
  /\ loader_df = None
  /\ df = None
  /\ regions = {}
  /\ routes = {}
  /\ op = "none"
  /\ arg = <<>>
  /\ result = <<>>
  /\ anomalies = <<>>
  /\ error = "none"

\* self.df = DataLoader(uploaded_file).load_data()
LoadData ==
  /\ pc = "start"
  /\ LET r == load_data(csv)
     IN  /\ loader_df' = r.self_df
         /\ df' = r.returned
         /\ error' = r.error
         /\ pc' = IF r.error = "none" THEN "loaded" ELSE "failed"
  /\ UNCHANGED <<csv, regions, routes, op, arg, result, anomalies>>

\* an analysis or the filter raised: the run ends
Crash(name, a, rs, ro) ==
  /\ pc' = "crashed"
  /\ error' = "KeyError"
  /\ op' = name
  /\ arg' = a
  /\ regions' = rs
  /\ routes' = ro
  /\ result' = <<>>
  /\ anomalies' = <<>>
  /\ UNCHANGED <<csv, loader_df, df>>

\* self.df = FilterUI.apply_filters(self.df): the selections are made among
\* the values the multiselect offers
ApplyFilters ==
  /\ pc = "loaded"
  /\ IF "Region" \notin df.cols THEN Crash("apply_filters", <<>>, {}, {})
     ELSE \E rs \in SUBSET unique(df, "Region") :
            LET d1 == filter_regions(df, rs)
            IN  IF "Route_ID" \notin d1.cols THEN Crash("apply_filters", <<>>, rs, {})
                ELSE \E ro \in SUBSET unique(d1, "Route_ID") :
                       /\ df' = filter_routes(d1, ro)
                       /\ regions' = rs
                       /\ routes' = ro
                       /\ pc' = "filtered"
                       /\ UNCHANGED <<csv, loader_df, op, arg, result, anomalies, error>>

\* an analysis returned: the run goes on to the next one
Finish(at, name, a, res, anom) ==
  /\ pc' = at
  /\ op' = name
  /\ arg' = a
  /\ result' = res
  /\ anomalies' = anom
  /\ error' = "none"
  /\ UNCHANGED <<csv, loader_df, df, regions, routes>>

\* PeakCongestionUI.render: the radio button picks one of the four analyses
HourlyAnalysis ==
  /\ pc = "filtered"
  /\ IF "passenger_count" \notin df.cols THEN Crash("hourly_analysis", <<>>, regions, routes)
     ELSE Finish("peak", "hourly_analysis", <<>>, hourly_analysis(df), <<>>)

DailyAnalysis ==
  /\ pc = "filtered"
  /\ IF "passenger_count" \notin df.cols THEN Crash("daily_analysis", <<>>, regions, routes)
     ELSE Finish("peak", "daily_analysis", <<>>, daily_analysis(df), <<>>)

MonthlyAnalysis ==
  /\ pc = "filtered"
  /\ IF "passenger_count" \notin df.cols THEN Crash("monthly_analysis", <<>>, regions, routes)
     ELSE Finish("peak", "monthly_analysis", <<>>, monthly_analysis(df), <<>>)

YearlyAnalysis ==
  /\ pc = "filtered"
  /\ IF "passenger_count" \notin df.cols THEN Crash("yearly_analysis", <<>>, regions, routes)
     ELSE Finish("peak", "yearly_analysis", <<>>, yearly_analysis(df), <<>>)

\* PopularRouteUI.render
TopRoutes ==
  /\ pc = "peak"
  /\ \E n \in NValues :
       IF ~({"Route_ID", "passenger_count"} \subseteq df.cols)
         THEN Crash("top_routes", <<n>>, regions, routes)
       ELSE \E res \in top_routes(df, n) : Finish("routes", "top_routes", <<n>>, res, <<>>)

TopTransferPoints ==
  /\ pc = "routes"
  /\ \E n \in NValues :
       IF ~({"Entry_Station_ID", "Exit_Station_ID"} \subseteq df.cols)
         THEN Crash("top_transfer_points", <<n>>, regions, routes)
       ELSE \E res \in top_transfer_points(df, n) :
              Finish("transfers", "top_transfer_points", <<n>>, res, <<>>)

\* ServiceDisruptionUI.render
DetectAnomalies ==
  /\ pc = "transfers"
  /\ \E z \in ZValues :
       IF "passenger_count" \notin df.cols
         THEN Crash("detect_anomalies", z, regions, routes)
       ELSE LET r == detect_anomalies(df, z)
            IN  Finish("disruption", "detect_anomalies", z, r[2], r[1])

\* RegionalPerformanceUI.render
RegionPassengerTrends ==
  /\ pc = "disruption"
  /\ IF ~({"Region", "passenger_count"} \subseteq df.cols)
       THEN Crash("region_passenger_trends", <<>>, regions, routes)
     ELSE \E res \in region_passenger_trends(df) :
            Finish("passengers", "region_passenger_trends", <<>>, res, <<>>)

RegionRevenueTrends ==
  /\ pc = "passengers"
  /\ IF ~({"Region", "Total_Fees"} \subseteq df.cols)
       THEN Crash("region_revenue_trends", <<>>, regions, routes)
     ELSE \E res \in region_revenue_trends(df) :
            Finish("done", "region_revenue_trends", <<>>, res, <<>>)

Next ==
  \/ LoadData
  \/ ApplyFilters
  \/ HourlyAnalysis
  \/ DailyAnalysis
  \/ MonthlyAnalysis
  \/ YearlyAnalysis
  \/ TopRoutes
  \/ TopTransferPoints
  \/ DetectAnomalies
  \/ RegionPassengerTrends
  \/ RegionRevenueTrends

Spec == Init /\ [][Next]_vars

----------------------------------------------------------------------------
(* Properties *)

\* the filter has returned
Filtered ==
  \/ pc \in {"filtered", "peak", "routes", "transfers", "disruption", "passengers", "done"}
  \/ pc = "crashed" /\ op # "apply_filters"

\* an analysis has returned the result held in result / anomalies
Returned(name) == op = name /\ error = "none"

\* sum of column c over the rows of t whose column k has the value key
TotalOf(t, c, k, key) ==
  SumSeq([i \in 1..Len(t.rows) |-> IF t.rows[i][k] = key THEN t.rows[i][c] ELSE 0])

\* number of rows of t whose column k has the value key
CountOf(t, k, key) == Cardinality({i \in 1..Len(t.rows) : t.rows[i][k] = key})

IsStrictlyAscending(s) == \A i \in 1..Len(s) : \A j \in 1..Len(s) : i < j => s[i] < s[j]

IsNonIncreasing(s) == \A i \in 1..Len(s) : i > 1 => s[i - 1] >= s[i]

MinOf(a, b) == IF a < b THEN a ELSE b

\* C1: the filtered table holds exactly the loaded records r, in their order,
\* with (regions empty or r.Region in regions) and (routes empty or r.Route_ID
\* in routes); so it is a part of the loaded table, and with a region
\* selection every surviving record has a selected region.
FilterKeepsExactlyTheSelected ==
  Filtered =>
    LET selected(r) == /\ (regions = {} \/ r.Region \in regions)
                       /\ (routes = {} \/ r.Route_ID \in routes)
    IN  /\ df.rows = SelectSeq(loader_df.rows, selected)
        /\ Range(df.rows) \subseteq Range(loader_df.rows)
        /\ Len(df.rows) <= Len(loader_df.rows)
        /\ regions # {} => \A r \in Range(df.rows) : r.Region \in regions

\* C1 witness: both selections are made, a record with a selected region is
\* dropped for its route, and a record survives
FilterBothSelections ==
  /\ pc = "filtered"
  /\ regions # {}
  /\ routes # {}
  /\ df.rows # <<>>
  /\ \E r \in Range(loader_df.rows) : r.Region \in regions /\ r.Route_ID \notin routes

\* the dates of the table handed to the detector
DatesOf(t) == {dt_date(r.Timestamp) : r \in Range(t.rows)} \ {NaN}

TotalOnDate(t, d) ==
  SumSeq([i \in 1..Len(t.rows) |->
     IF dt_date(t.rows[i].Timestamp) = d THEN t.rows[i].passenger_count ELSE 0])

\* abs(total - mean) > z * std for the totals of the dates ds (a sequence
\* without repetition), mean = S / N, std^2 = (N * SS - S^2) / (N * (N - 1)),
\* z = z[1] / z[2]; with fewer than two dates std is undefined and nothing is
\* above it
IsAnomalous(t, ds, d, z) ==
  LET N == Len(ds)
      S == SumSeq([i \in 1..N |-> TotalOnDate(t, ds[i])])
      SS == SumSeq([i \in 1..N |-> TotalOnDate(t, ds[i]) * TotalOnDate(t, ds[i])])
      x == TotalOnDate(t, d)
  IN  /\ N >= 2
      /\ IF z[1] < 0 THEN N * SS - S * S > 0
         ELSE z[2] * z[2] * (N - 1) * (N * x - S) * (N * x - S) > z[1] * z[1] * N * (N * SS - S * S)

\* C2: all_days maps each date of the table to the sum of passenger_count on
\* that date, ascending by date; anomalous_days is all_days restricted to the
\* days with abs(total - mean) > z_thresh * std (sample mean, N-1 standard
\* deviation), in the same order.
DetectAnomaliesContract ==
  Returned("detect_anomalies") =>
    LET flagged(e) == IsAnomalous(df, Keys(result), e[1], arg)
    IN  /\ IsStrictlyAscending(Keys(result))
        /\ Range(Keys(result)) = DatesOf(df)
        /\ \A i \in 1..Len(result) : result[i][2] = TotalOnDate(df, result[i][1])
        /\ anomalies = SelectSeq(result, flagged)

\* C2 witness: with a positive threshold some days are anomalous, others not
SomeDaysAnomalous ==
  /\ Returned("detect_anomalies")
  /\ arg[1] > 0
  /\ anomalies # <<>>
  /\ Len(anomalies) < Len(result)

NonTruncating ==
  {"hourly_analysis", "daily_analysis", "monthly_analysis", "yearly_analysis",
   "region_passenger_trends", "region_revenue_trends", "detect_anomalies"}

\* C3: the group totals of a non-truncating aggregator sum to the sum of
\* passenger_count (Total_Fees for revenue trends) over all records of its
\* table, records with a missing Timestamp or Region included.
SumConservation ==
  (op \in NonTruncating /\ error = "none") =>
    SumSeq(Values(result)) =
      SumSeq(Column(df, IF op = "region_revenue_trends" THEN "Total_Fees" ELSE "passenger_count"))

\* C4: load fails and returns no table when a required column is absent or a
\* row's Timestamp is text that is no date-time; Departure_Time and
\* Arrival_Time cells that are empty or no date-time never make it fail and
\* are absent (NaT) in the returned table.
LoadFailsOnSchemaError ==
  pc \in {"loaded", "failed"} =>
    LET broken == \/ ~(Columns \subseteq csv.cols)
                  \/ "Timestamp" \in csv.cols /\ Raises(csv, "Timestamp")
    IN  /\ broken => (pc = "failed" /\ df = None)
        /\ ~broken =>
             /\ pc = "loaded"
             /\ Len(df.rows) = Len(csv.rows)
             /\ \A i \in 1..Len(csv.rows) : \A c \in {"Departure_Time", "Arrival_Time"} :
                  ~Parseable(csv.rows[i][c]) => df.rows[i][c] = NaT

Analyses ==
  NonTruncating \cup {"top_routes", "top_transfer_points"}

\* C5: every record of a table an aggregator or the detector is given has a
\* valid Timestamp.
AnalysedTimestampsValid ==
  op \in Analyses => \A r \in Range(df.rows) : r.Timestamp # NaT

\* C6: with zero days, one day, or all days at the same total, the detector
\* returns no anomalous day for any threshold and does not raise; with zero
\* days all_days is empty too.
NoAnomalyWithoutSpread ==
  (op = "detect_anomalies" /\ "passenger_count" \in df.cols) =>
    LET totals == {TotalOnDate(df, d) : d \in DatesOf(df)}
    IN  /\ error = "none"
        /\ (Cardinality(DatesOf(df)) <= 1 \/ Cardinality(totals) <= 1) => anomalies = <<>>
        /\ DatesOf(df) = {} => result = <<>>

\* C6 witness: several days, all at the same total, and a negative threshold
EqualDaysNegativeThreshold ==
  /\ Returned("detect_anomalies")
  /\ arg[1] < 0
  /\ Cardinality(DatesOf(df)) >= 2
  /\ Cardinality({TotalOnDate(df, d) : d \in DatesOf(df)}) = 1

\* C7: a top-N query with n <= 0 ends in an InvalidParameterError and returns
\* no ranking.
TopNRejectsNonPositive ==
  (op \in {"top_routes", "top_transfer_points"} /\ arg[1] <= 0) =>
    error = "InvalidParameterError"

RouteIds(t) == Range(Column(t, "Route_ID")) \ {NaN}

\* C8: for n >= 1 top_routes returns min(n, number of routes) pairs (route,
\* total), each total the sum of passenger_count of the route, the totals
\* non-increasing, and no route left out has a larger total than one kept;
\* records [(R1,10),(R2,50),(R1,5)] with n = 2 give [(R2,50),(R1,15)].
TopRoutesContract ==
  (Returned("top_routes") /\ arg[1] >= 1) =>
    LET kept == Range(Keys(result))
        total(k) == TotalOf(df, "passenger_count", "Route_ID", k)
    IN  /\ Len(result) = MinOf(arg[1], Cardinality(RouteIds(df)))
        /\ Cardinality(kept) = Len(result)
        /\ kept \subseteq RouteIds(df)
        /\ \A i \in 1..Len(result) : result[i][2] = total(result[i][1])
        /\ IsNonIncreasing(Values(result))
        /\ \A k \in RouteIds(df) \ kept : \A j \in kept : total(k) <= total(j)
        /\ ( /\ Column(df, "Route_ID") = <<1, 2, 1>>
             /\ Column(df, "passenger_count") = <<10, 50, 5>>
             /\ arg[1] = 2 ) => result = <<<<2, 50>>, <<1, 15>>>>

\* C8 witness: the ranking is cut to n routes and a route with a smaller total
\* is left out
TopRoutesTruncated ==
  /\ Returned("top_routes")
  /\ arg[1] >= 1
  /\ Len(result) = arg[1]
  /\ \E k \in RouteIds(df) \ Range(Keys(result)) :
       TotalOf(df, "passenger_count", "Route_ID", k) < result[Len(result)][2]

Stations(t) ==
  (Range(Column(t, "Entry_Station_ID")) \cup Range(Column(t, "Exit_Station_ID"))) \ {NaN}

Occurrences(t, s) == CountOf(t, "Entry_Station_ID", s) + CountOf(t, "Exit_Station_ID", s)

RECURSIVE SumOccurrences(_, _)
SumOccurrences(t, S) ==
  IF S = {} THEN 0
  ELSE LET s == CHOOSE x \in S : TRUE IN Occurrences(t, s) + SumOccurrences(t, S \ {s})

\* the ranking of top_transfer_points: the n stations (all of them when there
\* are fewer) with the largest counts, count = entries + exits, non-increasing
TransferRanking ==
  LET kept == Range(Keys(result))
  IN  /\ Len(result) = MinOf(arg[1], Cardinality(Stations(df)))
      /\ Cardinality(kept) = Len(result)
      /\ kept \subseteq Stations(df)
      /\ \A i \in 1..Len(result) : result[i][2] = Occurrences(df, result[i][1])
      /\ IsNonIncreasing(Values(result))
      /\ \A s \in Stations(df) \ kept : \A k \in kept : Occurrences(df, s) <= Occurrences(df, k)

\* C9 as stated: the count of a station is its entries plus its exits, the
\* counts of all stations sum to twice the number of records, and the n
\* stations with the largest counts are returned in non-increasing order.
TransferCountsSumToTwiceRecords ==
  (Returned("top_transfer_points") /\ arg[1] >= 0) =>
    /\ TransferRanking
    /\ SumOccurrences(df, Stations(df)) = 2 * Len(df.rows)

\* C9 amended: as above, but the counts of all stations sum to twice the
\* number of records less the number of missing entry and exit stations.
TransferCountsSkipMissing ==
  (Returned("top_transfer_points") /\ arg[1] >= 0) =>
    /\ TransferRanking
    /\ SumOccurrences(df, Stations(df)) =
         2 * Len(df.rows) - CountOf(df, "Entry_Station_ID", NaN) - CountOf(df, "Exit_Station_ID", NaN)

\* C9 witness: a record with entry = exit adds 2 to its station, which is
\* ranked first, and another record has a missing station
TransferSameStationTwice ==
  /\ Returned("top_transfer_points")
  /\ arg[1] >= 1
  /\ \E r \in Range(df.rows) :
       /\ r.Entry_Station_ID = r.Exit_Station_ID
       /\ r.Entry_Station_ID # NaN
       /\ result # <<>>
       /\ result[1] = <<r.Entry_Station_ID, 2>>
  /\ \E r \in Range(df.rows) : r.Exit_Station_ID = NaN

LessEq(z1, z2) == z1[1] * z2[2] <= z2[1] * z1[2]

FlaggedDays(t, z) == Range(Keys(detect_anomalies(t, z)[1]))

\* C10: for thresholds z1 <= z2 the days flagged with z2 are among the days
\* flagged with z1.
ThresholdMonotone ==
  Returned("detect_anomalies") =>
    \A z2 \in ZValues : LessEq(arg, z2) => FlaggedDays(df, z2) \subseteq Range(Keys(anomalies))

\* C10 witness: a larger threshold flags some of the days, but fewer
FewerDaysAtLargerThreshold ==
  /\ Returned("detect_anomalies")
  /\ \E z2 \in ZValues :
       /\ LessEq(arg, z2)
       /\ FlaggedDays(df, z2) # {}
       /\ FlaggedDays(df, z2) # Range(Keys(anomalies))

====
